---- MODULE Spec2Model ----
(***************************************************************************)
(* Authentication and authorization core of the Elite Fitness backend:     *)
(* password login with lockout (config/passport.js, models), bearer        *)
(* credentials and the revocation set (utils/jwt.js), external-identity    *)
(* linking (utils/oauth.js) and permission resolution                      *)
(* (middleware/authorize.js).                                              *)
(*                                                                         *)
(* Conventions.  A nullable value (lockedUntil, lastLogin, googleId, the   *)
(* row a finder returns, ...) is a set with at most one element: {} is     *)
(* null.  Time is Date.now() in milliseconds.  A table is a sequence of    *)
(* rows, the primary key of a row being its index.  `last' records the     *)
(* operation that produced the current state together with its response.   *)
(***************************************************************************)
EXTENDS Integers, Sequences, FiniteSets, TLC

VARIABLES now, clients, users, issued, revokedTokens, procs, subject, last

vars == <<now, clients, users, issued, revokedTokens, procs, subject, last>>

(***************************************************************************)
(* Bounds of the model.                                                    *)
(***************************************************************************)
MaxLockTicks == 3
MaxAttempts == 6
MaxJwtTicks == 8
MaxIssued == 2
MaxOAuthTicks == 1
MaxCalls == 2
MaxOverrides == 2
MaxUsers == 3
MaxLogins == 3
MaxGateTicks == 2

(* Granularity of the clock in the lockout specification: 15 minutes.      *)
LockTickMs == 15 * 60 * 1000

(* Granularity of the clock in the credential specification: one day.      *)
JwtTickMs == 24 * 60 * 60 * 1000

(***************************************************************************)
(* Inputs.                                                                 *)
(***************************************************************************)
ClientEmail == "a@x.com"
ClientEmailUpper == "A@X.com"
StaffEmail == "s@x.com"
RootEmail == "r@x.com"
UnknownEmail == "n@x.com"
GoodPassword == "Client123!"
BadPassword == "WrongPassword123!"

LoginEmails == {ClientEmail, ClientEmailUpper, StaffEmail, UnknownEmail}
Passwords == {GoodPassword, BadPassword}

toLowerCase(e) == IF e = ClientEmailUpper THEN ClientEmail ELSE e

bcryptHash(p) == <<"bcrypt", p>>
bcryptCompare(p, h) == h = bcryptHash(p)

Range(s) == {s[i] : i \in DOMAIN s}
NoPermissions == [x \in {} |-> TRUE]

(***************************************************************************)
(* Rows.                                                                   *)
(***************************************************************************)
NewClient(email, password, provider, verified) ==
  [email |-> email, password |-> password, isActive |-> TRUE,
   isEmailVerified |-> verified, authProvider |-> provider,
   googleId |-> {}, facebookId |-> {},
   loginAttempts |-> 0, lockedUntil |-> {}, lastLogin |-> {}, deletedAt |-> {}]

NewUser(email, password, role, permissions) ==
  [email |-> email, password |-> {bcryptHash(password)}, role |-> role,
   permissions |-> permissions, isActive |-> TRUE,
   loginAttempts |-> 0, lockedUntil |-> {}, lastLogin |-> {}, deletedAt |-> {}]

(* Both models are paranoid: destroy() stamps deletedAt and every query    *)
(* skips the rows that carry it.                                           *)
findByPk(table, id) == {i \in DOMAIN table : i = id /\ table[i].deletedAt = {}}

(***************************************************************************)
(* Lockout tracker: the instance methods of User and Client.               *)
(***************************************************************************)
LOCK_THRESHOLD == 5
LOCK_MS == 30 * 60 * 1000

validatePassword(row, password) ==
  \E h \in row.password : bcryptCompare(password, h)

isLocked_untilReset(row, t) == row.lockedUntil # {}

isLocked(row, t) == \E u \in row.lockedUntil : u > t

incrementLoginAttempts_gt(row, t) ==
  IF row.loginAttempts + 1 > LOCK_THRESHOLD
  THEN [row EXCEPT !.loginAttempts = @ + 1, !.lockedUntil = {t + LOCK_MS}]
  ELSE [row EXCEPT !.loginAttempts = @ + 1]

incrementLoginAttempts(row, t) ==
  IF row.loginAttempts + 1 >= LOCK_THRESHOLD
  THEN [row EXCEPT !.loginAttempts = @ + 1, !.lockedUntil = {t + LOCK_MS}]
  ELSE [row EXCEPT !.loginAttempts = @ + 1]

resetLoginAttempts_keepLock(row, t) ==
  [row EXCEPT !.loginAttempts = 0, !.lastLogin = {t}]

resetLoginAttempts(row, t) ==
  [row EXCEPT !.loginAttempts = 0, !.lockedUntil = {}, !.lastLogin = {t}]

(***************************************************************************)
(* Finders of the store.                                                   *)
(***************************************************************************)
findActiveByEmail(table, email) ==
  {i \in DOMAIN table : /\ table[i].email = toLowerCase(email)
                         /\ table[i].isActive
                         /\ table[i].deletedAt = {}}

findByEmail(table, email) ==
  {i \in DOMAIN table : table[i].email = toLowerCase(email)}

(***************************************************************************)
(* passport 'local-client' and 'local-user': the verify callback.  The     *)
(* result carries the principal (user), the info passed to done() and the  *)
(* table after the callback's writes.                                      *)
(***************************************************************************)
localStrategy_lockAfterPassword(table, email, password, t, notFoundMessage, lockedMessage) ==
  LET found == findActiveByEmail(table, email) IN
  IF found = {}
  THEN [user |-> {}, code |-> "EMAIL_NOT_FOUND", message |-> notFoundMessage,
        table |-> table, passwordChecked |-> FALSE]
  ELSE LET id == CHOOSE i \in found : TRUE IN
       IF ~validatePassword(table[id], password)
       THEN [user |-> {}, code |-> "INVALID_PASSWORD",
             message |-> "Contraseña incorrecta",
             table |-> [table EXCEPT ![id] = incrementLoginAttempts(@, t)],
             passwordChecked |-> TRUE]
       ELSE IF isLocked(table[id], t)
       THEN [user |-> {}, code |-> "ACCOUNT_LOCKED", message |-> lockedMessage,
             table |-> table, passwordChecked |-> TRUE]
       ELSE [user |-> {id}, code |-> "OK", message |-> "OK",
             table |-> [table EXCEPT ![id] = resetLoginAttempts(@, t)],
             passwordChecked |-> TRUE]

localStrategy(table, email, password, t, notFoundMessage, lockedMessage) ==
  LET found == findActiveByEmail(table, email) IN
  IF found = {}
  THEN [user |-> {}, code |-> "EMAIL_NOT_FOUND", message |-> notFoundMessage,
        table |-> table, passwordChecked |-> FALSE]
  ELSE LET id == CHOOSE i \in found : TRUE IN
       IF isLocked(table[id], t)
       THEN [user |-> {}, code |-> "ACCOUNT_LOCKED", message |-> lockedMessage,
             table |-> table, passwordChecked |-> FALSE]
       ELSE IF ~validatePassword(table[id], password)
       THEN [user |-> {}, code |-> "INVALID_PASSWORD",
             message |-> "Contraseña incorrecta",
             table |-> [table EXCEPT ![id] = incrementLoginAttempts(@, t)],
             passwordChecked |-> TRUE]
       ELSE [user |-> {id}, code |-> "OK", message |-> "OK",
             table |-> [table EXCEPT ![id] = resetLoginAttempts(@, t)],
             passwordChecked |-> TRUE]

localClient(table, email, password, t) ==
  localStrategy(table, email, password, t, "Email no registrado",
                "Cuenta temporalmente bloqueada por múltiples intentos fallidos")

localUser(table, email, password, t) ==
  localStrategy(table, email, password, t, "Email de administrador no registrado",
                "Cuenta de administrador bloqueada")

(***************************************************************************)
(* Credential codec (utils/jwt.js over the jsonwebtoken library).  A       *)
(* credential is the record of its claims together with the key that       *)
(* signed it; a string that is not a JWT at all is the record Garbage.     *)
(***************************************************************************)
JWT_SECRET == "elite_fitness_super_secret_key_2024"
JWT_ISSUER == "elite-fitness-club"
JWT_AUDIENCE == {"web", "mobile"}
ACCESS_TOKEN_EXPIRY == 24 * 60 * 60
REFRESH_TOKEN_EXPIRY == 7 * 24 * 60 * 60

Garbage == [form |-> "garbage"]

jwtSign(payload, secret) == [form |-> "jwt", payload |-> payload, key |-> secret]

seconds(t) == t \div 1000

generateAccessToken_noAudience(p, t, jti) ==
  jwtSign([id |-> p.id, email |-> p.email, type |-> p.type, role |-> p.role,
           permissions |-> p.permissions, iat |-> seconds(t),
           exp |-> seconds(t) + ACCESS_TOKEN_EXPIRY, iss |-> JWT_ISSUER,
           sub |-> p.id, jti |-> jti], JWT_SECRET)

generateAccessToken(p, t, jti) ==
  jwtSign([id |-> p.id, email |-> p.email, type |-> p.type, role |-> p.role,
           permissions |-> p.permissions, iat |-> seconds(t),
           exp |-> seconds(t) + ACCESS_TOKEN_EXPIRY, iss |-> JWT_ISSUER,
           aud |-> JWT_AUDIENCE, sub |-> p.id, jti |-> jti], JWT_SECRET)

generateRefreshToken_accessClaims(userId, userType, t, jti) ==
  jwtSign([userId |-> userId, userType |-> userType, tokenType |-> "refresh",
           id |-> userId, type |-> userType,
           iat |-> seconds(t), exp |-> seconds(t) + REFRESH_TOKEN_EXPIRY,
           iss |-> JWT_ISSUER, aud |-> JWT_AUDIENCE, sub |-> userId, jti |-> jti],
          JWT_SECRET)

generateRefreshToken(userId, userType, t, jti) ==
  jwtSign([userId |-> userId, userType |-> userType, tokenType |-> "refresh",
           iat |-> seconds(t), exp |-> seconds(t) + REFRESH_TOKEN_EXPIRY,
           iss |-> JWT_ISSUER, sub |-> userId, jti |-> jti], JWT_SECRET)

generateTokenPair(p, t, jti) ==
  [accessToken |-> generateAccessToken(p, t, jti),
   refreshToken |-> generateRefreshToken(p.id, p.type, t, jti + 1)]

(* jsonwebtoken.verify(token, secret, {issuer, audience}): the checks in   *)
(* the library's order; the result is "ok" or the name of the error.       *)
jwtVerify(token, secret, issuer, audience, t) ==
  IF token.form # "jwt" THEN "JsonWebTokenError"
  ELSE IF token.key # secret THEN "JsonWebTokenError"
  ELSE IF seconds(t) >= token.payload.exp THEN "TokenExpiredError"
  ELSE IF ~("aud" \in DOMAIN token.payload
            /\ token.payload.aud \cap audience # {}) THEN "JsonWebTokenError"
  ELSE IF token.payload.iss # issuer THEN "JsonWebTokenError"
  ELSE "ok"

verifyToken(token, revoked, t) ==
  IF token \in revoked
  THEN [ok |-> FALSE, error |-> "Error verificando token: Token revocado"]
  ELSE LET r == jwtVerify(token, JWT_SECRET, JWT_ISSUER, JWT_AUDIENCE, t) IN
       IF r = "TokenExpiredError" THEN [ok |-> FALSE, error |-> "Token expirado"]
       ELSE IF r = "JsonWebTokenError" THEN [ok |-> FALSE, error |-> "Token inválido"]
       ELSE IF token.payload.exp < seconds(t)
       THEN [ok |-> FALSE, error |-> "Error verificando token: Token expirado"]
       ELSE [ok |-> TRUE, decoded |-> token.payload]

revokeToken(token, revoked) == revoked \cup {token}

(* getTokenInfo: decode without verification; null for a non-JWT.          *)
getTokenInfo(token) ==
  IF token.form # "jwt" THEN {}
  ELSE {[expiresAt |-> token.payload.exp * 1000, jwtId |-> token.payload.jti]}

cleanupRevokedTokens_all(revoked, t) ==
  {tok \in revoked : getTokenInfo(tok) = {}}

cleanupRevokedTokens(revoked, t) ==
  {tok \in revoked :
     ~(\E info \in getTokenInfo(tok) : info.expiresAt \div 1000 < seconds(t))}

(***************************************************************************)
(* Role hierarchy (middleware/authorize.js), used by the user controller.  *)
(***************************************************************************)
ROLE_HIERARCHY == [super_admin |-> 4, admin |-> 3, staff |-> 2, client |-> 1]

roleLevel(role) == IF role \in DOMAIN ROLE_HIERARCHY THEN ROLE_HIERARCHY[role] ELSE 0

(***************************************************************************)
(* Handlers of the auth controller: password login.                        *)
(***************************************************************************)
NextJti == Cardinality(issued) + 1

loginResponse(r, errorTitle, defaultCode) ==
  [status |-> 401, error |-> errorTitle, message |-> r.message,
   code |-> IF r.code = "" THEN defaultCode ELSE r.code]

loginClientResponse(r) ==
  loginResponse(r, "Credenciales inválidas", "INVALID_CREDENTIALS")

loginAdminResponse(r) ==
  loginResponse(r, "Credenciales de administrador inválidas", "INVALID_ADMIN_CREDENTIALS")

(* What the caller of a failed login can observe.                          *)
Visible(resp) == <<resp.status, resp.code, resp.message>>

Login(op, table, r, resp, type, email, password, keep) ==
  /\ \A i \in DOMAIN r.table : r.table[i].loginAttempts <= MaxAttempts
  /\ IF r.user = {}
     THEN /\ last' = [op |-> op, email |-> email, password |-> password, status |-> resp.status,
                      error |-> resp.error, message |-> resp.message,
                      code |-> resp.code, user |-> {},
                      passwordChecked |-> r.passwordChecked,
                      before |-> {[loginAttempts |-> table[i].loginAttempts,
                                   lockedUntil |-> table[i].lockedUntil]
                                  : i \in findByEmail(table, email)},
                      tokens |-> {}]
          /\ UNCHANGED issued
     ELSE LET id == CHOOSE i \in r.user : TRUE
              row == r.table[id]
              tokens == generateTokenPair(
                          [id |-> id, email |-> row.email, type |-> type,
                           role |-> IF type = "user" THEN {row.role} ELSE {},
                           permissions |-> IF type = "user" THEN row.permissions
                                           ELSE NoPermissions],
                          now, NextJti)
          IN /\ last' = [op |-> op, email |-> email, password |-> password, status |-> 200,
                         error |-> "", message |-> "Login exitoso", code |-> "OK",
                         user |-> {id}, passwordChecked |-> r.passwordChecked,
                         before |-> {[loginAttempts |-> table[i].loginAttempts,
                                   lockedUntil |-> table[i].lockedUntil]
                                  : i \in findByEmail(table, email)},
                         tokens |-> {tokens}]
             /\ issued' = IF keep
                          THEN issued \cup {tokens.accessToken, tokens.refreshToken}
                          ELSE issued

LoginClient(email, password, keep) ==
  LET r == localClient(clients, email, password, now) IN
  /\ Login("loginClient", clients, r, loginClientResponse(r), "client", email,
           password, keep)
  /\ clients' = r.table
  /\ UNCHANGED <<now, users, revokedTokens, procs, subject>>

LoginAdmin(email, password, keep) ==
  LET r == localUser(users, email, password, now) IN
  /\ Login("loginAdmin", users, r, loginAdminResponse(r), "user", email,
           password, keep)
  /\ users' = r.table
  /\ UNCHANGED <<now, clients, revokedTokens, procs, subject>>

(***************************************************************************)
(* Administration: updateClient and updateUser, as far as they change the  *)
(* fields the authentication core reads.                                   *)
(***************************************************************************)
UpdateClient(id, isActive) ==
  /\ id \in DOMAIN clients
  /\ clients' = [clients EXCEPT ![id].isActive = isActive]
  /\ last' = [op |-> "updateClient", status |-> 200, id |-> id]
  /\ UNCHANGED <<now, users, issued, revokedTokens, procs, subject>>

updateUser(table, actor, id, body) ==
  LET currentUserLevel == roleLevel(table[actor].role)
      targetUserLevel == roleLevel(table[id].role)
  IN IF findByPk(table, id) = {}
     THEN [status |-> 404, code |-> "USER_NOT_FOUND", table |-> table]
     ELSE IF targetUserLevel >= currentUserLevel
     THEN [status |-> 403, code |-> "INSUFFICIENT_PERMISSIONS", table |-> table]
     ELSE IF \E role \in body.role : roleLevel(role) >= currentUserLevel
     THEN [status |-> 403, code |-> "INSUFFICIENT_ROLE_LEVEL", table |-> table]
     ELSE [status |-> 200, code |-> "OK",
           table |-> [table EXCEPT
             ![id].role = IF body.role = {} THEN @ ELSE CHOOSE r \in body.role : TRUE,
             ![id].permissions = IF body.permissions = {} THEN @
                                 ELSE CHOOSE f \in body.permissions : TRUE,
             ![id].isActive = IF body.isActive = {} THEN @
                              ELSE CHOOSE a \in body.isActive : TRUE]]

UpdateUser(actor, id, body) ==
  /\ actor \in DOMAIN users /\ users[actor].isActive
  /\ id \in DOMAIN users
  /\ LET r == updateUser(users, actor, id, body) IN
       /\ users' = r.table
       /\ last' = [op |-> "updateUser", status |-> r.status, code |-> r.code,
                   actor |-> actor, id |-> id]
  /\ UNCHANGED <<now, clients, issued, revokedTokens, procs, subject>>

(***************************************************************************)
(* The clock.                                                              *)
(***************************************************************************)
Tick(step, maxTicks) ==
  /\ now + step <= maxTicks * step
  /\ now' = now + step
  /\ last' = [op |-> "tick"]
  /\ UNCHANGED <<clients, users, issued, revokedTokens, procs, subject>>

(***************************************************************************)
(* Specification of password login and lockout: one client, a super_admin  *)
(* and a staff user; the clock advances in steps of 15 minutes.            *)
(***************************************************************************)
LocalClient == NewClient(ClientEmail, {bcryptHash(GoodPassword)}, "local", FALSE)

Init ==
  /\ now = 0
  /\ clients = <<LocalClient>>
  /\ users = <<NewUser(RootEmail, GoodPassword, "super_admin", NoPermissions),
               NewUser(StaffEmail, GoodPassword, "staff", NoPermissions)>>
  /\ issued = {}
  /\ revokedTokens = {}
  /\ procs = <<>>
  /\ subject = {}
  /\ last = [op |-> "init"]

TickLock == Tick(LockTickMs, MaxLockTicks)

LoginClientAttempt ==
  \E email \in {ClientEmail, ClientEmailUpper, UnknownEmail}, password \in Passwords :
    LoginClient(email, password, FALSE)

LoginAdminAttempt ==
  \E email \in {StaffEmail, UnknownEmail}, password \in Passwords :
    LoginAdmin(email, password, FALSE)

SetClientActive == \E a \in BOOLEAN : UpdateClient(1, a)

SetUserActive ==
  \E a \in BOOLEAN :
    UpdateUser(1, 2, [role |-> {}, permissions |-> {}, isActive |-> {a}])

Next ==
  \/ LoginClientAttempt
  \/ LoginAdminAttempt
  \/ SetClientActive
  \/ SetUserActive
  \/ TickLock

Spec == Init /\ [][Next]_vars

(***************************************************************************)
(* passport 'jwt' strategy (passport-jwt): the bearer token is verified    *)
(* by jsonwebtoken with the strategy's own options, then the verify        *)
(* callback loads the principal.  The result carries the authenticated     *)
(* principal (or none) and the tables after the callback's write.          *)
(***************************************************************************)
LAST_LOGIN_REFRESH_MS == 30 * 60 * 1000

touchLastLogin(row, t) ==
  IF \A l \in row.lastLogin : t - l > LAST_LOGIN_REFRESH_MS
  THEN [row EXCEPT !.lastLogin = {t}]
  ELSE row

jwtStrategy(header, cs, us, t) ==
  LET fail(m) == [user |-> {}, message |-> m, clients |-> cs, users |-> us] IN
  IF header = {} THEN fail("No auth token")
  ELSE LET token == CHOOSE x \in header : TRUE IN
    IF jwtVerify(token, JWT_SECRET, JWT_ISSUER, JWT_AUDIENCE, t) # "ok"
    THEN fail("jwt error")
    ELSE LET payload == token.payload IN
      IF ~("type" \in DOMAIN payload /\ payload.type \in {"user", "client"})
      THEN fail("Tipo de usuario no válido")
      ELSE LET table == IF payload.type = "user" THEN us ELSE cs IN
        IF ~(\E i \in findByPk(table, payload.id) : table[i].isActive)
        THEN fail("Usuario no encontrado o inactivo")
        ELSE LET after == [table EXCEPT ![payload.id] = touchLastLogin(@, t)] IN
          [user |-> {[type |-> payload.type, id |-> payload.id]},
           message |-> "OK",
           clients |-> IF payload.type = "client" THEN after ELSE cs,
           users |-> IF payload.type = "user" THEN after ELSE us]

(* requireAuth (requireJWT) in front of a protected handler.               *)
ProtectedRequest(header) ==
  LET r == jwtStrategy(header, clients, users, now) IN
  /\ clients' = r.clients
  /\ users' = r.users
  /\ last' = [op |-> "protected", header |-> header,
              status |-> IF r.user = {} THEN 401 ELSE 200,
              code |-> IF r.user = {} THEN "AUTHENTICATION_REQUIRED" ELSE "OK",
              user |-> r.user]
  /\ UNCHANGED <<now, issued, revokedTokens, procs, subject>>

(* POST /api/auth/logout: optionalAuth (authenticateJWT), then logout.     *)
logout_headerOnly(header, body, revoked) ==
  LET afterHeader == IF header = {} THEN revoked
                     ELSE revokeToken(CHOOSE x \in header : TRUE, revoked)
  IN [status |-> 200, message |-> "Logout exitoso", revoked |-> afterHeader]

logout(header, body, revoked) ==
  LET afterHeader == IF header = {} THEN revoked
                     ELSE revokeToken(CHOOSE x \in header : TRUE, revoked)
      afterBody == IF body = {} THEN afterHeader
                   ELSE revokeToken(CHOOSE x \in body : TRUE, afterHeader)
  IN [status |-> 200, message |-> "Logout exitoso", revoked |-> afterBody]

Logout(header, body) ==
  LET r == jwtStrategy(header, clients, users, now)
      out == logout(header, body, revokedTokens)
  IN /\ clients' = r.clients
     /\ users' = r.users
     /\ revokedTokens' = out.revoked
     /\ last' = [op |-> "logout", header |-> header, body |-> body,
                 status |-> out.status, message |-> out.message]
     /\ UNCHANGED <<now, issued, procs, subject>>

(***************************************************************************)
(* Refresh: utils/jwt.js refreshAccessToken and the controller.            *)
(***************************************************************************)
(* What refreshAccessToken hands to generateAccessToken for a principal.   *)
refreshedPayload(table, id, userType) ==
  [id |-> id, email |-> table[id].email, type |-> userType,
   role |-> IF "role" \in DOMAIN table[id] THEN {table[id].role} ELSE {},
   permissions |-> IF "permissions" \in DOMAIN table[id]
                   THEN table[id].permissions ELSE NoPermissions]

refreshAccessToken_anyType(token, cs, us, revoked, t, jti) ==
  LET fail(cause) == [ok |-> FALSE, token |-> {}, cause |-> cause,
                      error |-> "Error renovando token de acceso"]
      v == verifyToken(token, revoked, t)
  IN IF ~v.ok THEN fail(v.error)
     ELSE LET userType == IF "userType" \in DOMAIN v.decoded THEN v.decoded.userType
                          ELSE v.decoded.type
              id == IF "userId" \in DOMAIN v.decoded THEN v.decoded.userId
                    ELSE v.decoded.id
              table == IF userType = "user" THEN us ELSE cs
          IN IF ~(\E i \in findByPk(table, id) : table[i].isActive)
             THEN fail("Usuario no encontrado o inactivo")
             ELSE [ok |-> TRUE, cause |-> "", error |-> "",
                   token |-> {generateAccessToken(refreshedPayload(table, id, userType),
                                                  t, jti)}]

refreshAccessToken_unverified(token, cs, us, revoked, t, jti) ==
  LET fail(cause) == [ok |-> FALSE, token |-> {}, cause |-> cause,
                      error |-> "Error renovando token de acceso"]
  IN IF token.form # "jwt" THEN fail("Token inválido")
     ELSE IF ~("tokenType" \in DOMAIN token.payload
               /\ token.payload.tokenType = "refresh")
     THEN fail("Token de renovación inválido")
     ELSE LET table == IF token.payload.userType = "user" THEN us ELSE cs
              id == token.payload.userId
          IN [ok |-> TRUE, cause |-> "", error |-> "",
              token |-> {generateAccessToken(
                           refreshedPayload(table, id, token.payload.userType),
                           t, jti)}]

refreshAccessToken(token, cs, us, revoked, t, jti) ==
  LET fail(cause) == [ok |-> FALSE, token |-> {}, cause |-> cause,
                      error |-> "Error renovando token de acceso"]
      v == verifyToken(token, revoked, t)
  IN IF ~v.ok THEN fail(v.error)
     ELSE IF ~("tokenType" \in DOMAIN v.decoded /\ v.decoded.tokenType = "refresh")
     THEN fail("Token de renovación inválido")
     ELSE LET table == IF v.decoded.userType = "user" THEN us ELSE cs
              id == v.decoded.userId
          IN IF ~(\E i \in findByPk(table, id) : table[i].isActive)
             THEN fail("Usuario no encontrado o inactivo")
             ELSE [ok |-> TRUE, cause |-> "", error |-> "",
                   token |-> {generateAccessToken(
                     [id |-> id, email |-> table[id].email,
                      type |-> v.decoded.userType,
                      role |-> IF "role" \in DOMAIN table[id]
                               THEN {table[id].role} ELSE {},
                      permissions |-> IF "permissions" \in DOMAIN table[id]
                                      THEN table[id].permissions
                                      ELSE NoPermissions],
                     t, jti)}]

Refresh(body) ==
  /\ IF body = {}
     THEN /\ last' = [op |-> "refresh", body |-> body, status |-> 400,
                      code |-> "REFRESH_TOKEN_REQUIRED", message |-> "",
                      tokens |-> {}]
          /\ UNCHANGED issued
     ELSE LET r == refreshAccessToken(CHOOSE x \in body : TRUE, clients, users,
                                      revokedTokens, now, NextJti)
          IN /\ last' = [op |-> "refresh", body |-> body,
                         status |-> IF r.ok THEN 200 ELSE 401,
                         code |-> IF r.ok THEN "OK" ELSE "INVALID_REFRESH_TOKEN",
                         message |-> r.error, tokens |-> r.token]
             /\ issued' = IF Cardinality(issued \cup r.token) <= MaxIssued
                          THEN issued \cup r.token ELSE issued
  /\ UNCHANGED <<now, clients, users, revokedTokens, procs, subject>>

(* Housekeeping of the revocation set.                                     *)
Cleanup ==
  /\ revokedTokens' = cleanupRevokedTokens(revokedTokens, now)
  /\ last' = [op |-> "cleanup"]
  /\ UNCHANGED <<now, clients, users, issued, procs, subject>>

(***************************************************************************)
(* Specification of the credentials: the principals of Init log in with    *)
(* their password and keep the credential pair; the clock advances in      *)
(* steps of one day, so that access (24h) and refresh (7d) credentials     *)
(* both expire within the bound.                                           *)
(***************************************************************************)
(* A well-formed credential for the first user signed with another key.   *)
Forged ==
  [generateAccessToken([id |-> 1, email |-> RootEmail, type |-> "user",
                        role |-> {"super_admin"}, permissions |-> NoPermissions],
                       0, 0)
   EXCEPT !.key = "another_secret"]

Presented == issued \cup {Garbage, Forged}

TickJwt == Tick(JwtTickMs, MaxJwtTicks)

LoginClientKeep ==
  /\ Cardinality(issued) + 2 <= MaxIssued
  /\ LoginClient(ClientEmail, GoodPassword, TRUE)

LoginAdminKeep ==
  /\ Cardinality(issued) + 2 <= MaxIssued
  /\ LoginAdmin(StaffEmail, GoodPassword, TRUE)

Request == \E t \in Presented : ProtectedRequest({t})

LogoutCall ==
  \E h \in {{}} \cup {{t} : t \in Presented}, b \in {{}} \cup {{t} : t \in Presented} :
    Logout(h, b)

RefreshCall == \E b \in {{}} \cup {{t} : t \in Presented} : Refresh(b)

NextJwt ==
  \/ LoginClientKeep
  \/ LoginAdminKeep
  \/ Request
  \/ LogoutCall
  \/ RefreshCall
  \/ Cleanup
  \/ SetClientActive
  \/ SetUserActive
  \/ TickJwt

SpecJwt == Init /\ [][NextJwt]_vars

(***************************************************************************)
(* External identity linker (utils/oauth.js) over the Client table.        *)
(* The table has unique indexes on email, googleId and facebookId: a       *)
(* create or update that would break one of them fails.                    *)
(***************************************************************************)
OtherEmail == "b@x.com"

oauthField(provider) == IF provider = "google" THEN "googleId" ELSE "facebookId"

findByOAuthId(table, provider, oauthId) ==
  {i \in DOMAIN table : /\ table[i][oauthField(provider)] = {oauthId}
                         /\ table[i].deletedAt = {}}

uniqueOK(table, i) ==
  \A j \in DOMAIN table \ {i} :
    /\ table[j].email # table[i].email
    /\ table[j].googleId \cap table[i].googleId = {}
    /\ table[j].facebookId \cap table[i].facebookId = {}

(* client.update({lastLogin}) of step 1.                                   *)
touchClient(table, id, t) == [table EXCEPT ![id].lastLogin = {t}]

(* client.update(updateData) of step 2; instanceProvider is authProvider   *)
(* of the instance findActiveByEmail returned.                             *)
linkClient_lastProvider(table, id, instanceProvider, profile, provider, t) ==
  LET row == [table[id] EXCEPT
                !.authProvider = provider,
                !.isEmailVerified = TRUE,
                !.lastLogin = {t},
                ![oauthField(provider)] = {profile.id}]
      after == [table EXCEPT ![id] = row]
  IN IF uniqueOK(after, id) THEN [ok |-> TRUE, id |-> {id}, table |-> after]
     ELSE [ok |-> FALSE, id |-> {}, table |-> table]

linkClient(table, id, instanceProvider, profile, provider, t) ==
  LET row == [table[id] EXCEPT
                !.authProvider = IF instanceProvider = "local" THEN provider
                                 ELSE "multiple",
                !.isEmailVerified = TRUE,
                !.lastLogin = {t},
                ![oauthField(provider)] = {profile.id}]
      after == [table EXCEPT ![id] = row]
  IN IF uniqueOK(after, id) THEN [ok |-> TRUE, id |-> {id}, table |-> after]
     ELSE [ok |-> FALSE, id |-> {}, table |-> table]

(* Client.create(clientData) of step 3.                                    *)
createClient(table, profile, provider, t) ==
  LET email == CHOOSE e \in profile.email : TRUE
      row == [NewClient(toLowerCase(email), {}, provider, TRUE) EXCEPT
                !.lastLogin = {t},
                ![oauthField(provider)] = {profile.id}]
      after == Append(table, row)
  IN IF uniqueOK(after, Len(after))
     THEN [ok |-> TRUE, id |-> {Len(after)}, table |-> after]
     ELSE [ok |-> FALSE, id |-> {}, table |-> table]

findOrCreateOAuthClient(table, profile, provider, t) ==
  LET byOAuthId == findByOAuthId(table, provider, profile.id) IN
  IF byOAuthId # {}
  THEN LET id == CHOOSE i \in byOAuthId : TRUE IN
       [ok |-> TRUE, id |-> {id}, table |-> touchClient(table, id, t)]
  ELSE LET byEmail == findActiveByEmail(table, CHOOSE e \in profile.email : TRUE) IN
       IF byEmail # {}
       THEN LET id == CHOOSE i \in byEmail : TRUE IN
            linkClient(table, id, table[id].authProvider, profile, provider, t)
       ELSE createClient(table, profile, provider, t)

(* handleOAuthSuccess: the credential pair for the resolved client.        *)
handleOAuthSuccess(table, id, t, jti) ==
  generateTokenPair([id |-> id, email |-> table[id].email, type |-> "client",
                     role |-> {}, permissions |-> NoPermissions], t, jti)

(* The provider callback: processGoogleProfile / processFacebookProfile    *)
(* (a profile without email is refused), findOrCreateOAuthClient, then     *)
(* handleOAuthSuccess.                                                     *)
OAuthCallback(profile, provider) ==
  /\ IF profile.email = {}
     THEN /\ last' = [op |-> "oauth", provider |-> provider, profile |-> profile,
                      status |-> "error", user |-> {}, tokens |-> {}]
          /\ UNCHANGED clients
     ELSE LET r == findOrCreateOAuthClient(clients, profile, provider, now) IN
          /\ clients' = r.table
          /\ last' = [op |-> "oauth", provider |-> provider, profile |-> profile,
                      status |-> IF r.ok THEN "ok" ELSE "error", user |-> r.id,
                      tokens |-> {handleOAuthSuccess(r.table, id, now, NextJti)
                                  : id \in r.id}]
  /\ UNCHANGED <<now, users, issued, revokedTokens, procs, subject>>

(***************************************************************************)
(* Specification of external-identity login, one call at a time: a local   *)
(* password account a@x.com exists; providers assert profiles for a@x.com  *)
(* (in either letter case), b@x.com or no email.                           *)
(***************************************************************************)
Providers == {"google", "facebook"}

ExternalIds(provider) == IF provider = "google" THEN {"g1", "g2"} ELSE {"f1"}

Profiles(provider) ==
  [id : ExternalIds(provider),
   email : {{ClientEmail}, {ClientEmailUpper}, {OtherEmail}, {}}]

TickOAuth == Tick(LockTickMs, MaxOAuthTicks)

OAuthLogin ==
  \E provider \in Providers : \E profile \in Profiles(provider) :
    OAuthCallback(profile, provider)

SetAnyClientActive == \E id \in DOMAIN clients, a \in BOOLEAN : UpdateClient(id, a)

NextOAuth ==
  \/ OAuthLogin
  \/ SetAnyClientActive
  \/ TickOAuth

SpecOAuth == Init /\ [][NextOAuth]_vars

(***************************************************************************)
(* Specification of concurrent external-identity logins.  Each call of     *)
(* findOrCreateOAuthClient is a process in procs that awaits one store     *)
(* call per step; between two awaits of one call the other calls may run.  *)
(* A process holds the instance its query returned (found) and the         *)
(* authProvider that instance had when it was read.                        *)
(***************************************************************************)
ConcProfiles(provider) ==
  [id : IF provider = "google" THEN {"g1"} ELSE {"f1"},
   email : {{ClientEmail}, {OtherEmail}}]

OAuthStep(p, proc, table) ==
  /\ procs' = [procs EXCEPT ![p] = proc]
  /\ clients' = table
  /\ last' = [op |-> "oauth-step", proc |-> p, await |-> procs[p].pc]
  /\ UNCHANGED <<now, users, issued, revokedTokens, subject>>

OAuthCall(profile, provider) ==
  /\ Len(procs) < MaxCalls
  /\ procs' = Append(procs, [pc |-> "findByOAuthId", provider |-> provider,
                             profile |-> profile, found |-> {},
                             instanceProvider |-> {}, result |-> {}])
  /\ last' = [op |-> "oauth-call", proc |-> Len(procs) + 1, await |-> "start"]
  /\ UNCHANGED <<now, clients, users, issued, revokedTokens, subject>>

AwaitFindByOAuthId(p) ==
  /\ procs[p].pc = "findByOAuthId"
  /\ LET found == findByOAuthId(clients, procs[p].provider, procs[p].profile.id) IN
     OAuthStep(p, [procs[p] EXCEPT !.found = found,
                     !.pc = IF found # {} THEN "touch" ELSE "findActiveByEmail"],
               clients)

AwaitTouch(p) ==
  /\ procs[p].pc = "touch"
  /\ LET id == CHOOSE i \in procs[p].found : TRUE IN
     OAuthStep(p, [procs[p] EXCEPT !.pc = "returned", !.result = {id}],
               touchClient(clients, id, now))

AwaitFindActiveByEmail(p) ==
  /\ procs[p].pc = "findActiveByEmail"
  /\ LET found == findActiveByEmail(clients, CHOOSE e \in procs[p].profile.email : TRUE) IN
     OAuthStep(p, [procs[p] EXCEPT !.found = found,
                     !.instanceProvider = {clients[i].authProvider : i \in found},
                     !.pc = IF found # {} THEN "link" ELSE "create"],
               clients)

AwaitLink(p) ==
  /\ procs[p].pc = "link"
  /\ LET id == CHOOSE i \in procs[p].found : TRUE
         r == linkClient(clients, id, CHOOSE a \in procs[p].instanceProvider : TRUE,
                         procs[p].profile, procs[p].provider, now)
     IN OAuthStep(p, [procs[p] EXCEPT !.pc = IF r.ok THEN "returned" ELSE "thrown",
                        !.result = r.id],
                  r.table)

AwaitCreate(p) ==
  /\ procs[p].pc = "create"
  /\ LET r == createClient(clients, procs[p].profile, procs[p].provider, now) IN
     OAuthStep(p, [procs[p] EXCEPT !.pc = IF r.ok THEN "returned" ELSE "thrown",
                     !.result = r.id],
               r.table)

StartOAuthCall ==
  \E provider \in Providers : \E profile \in ConcProfiles(provider) :
    OAuthCall(profile, provider)

NextOAuthConc ==
  \/ StartOAuthCall
  \/ \E p \in DOMAIN procs : AwaitFindByOAuthId(p)
  \/ \E p \in DOMAIN procs : AwaitTouch(p)
  \/ \E p \in DOMAIN procs : AwaitFindActiveByEmail(p)
  \/ \E p \in DOMAIN procs : AwaitLink(p)
  \/ \E p \in DOMAIN procs : AwaitCreate(p)

SpecOAuthConc == Init /\ [][NextOAuthConc]_vars

(***************************************************************************)
(* Specification of concurrent password logins of one client.  Each run of *)
(* the 'local-client' verify callback is a process in procs; it suspends   *)
(* at findActiveByEmail, at validatePassword (bcrypt) and at the update of *)
(* incrementLoginAttempts or resetLoginAttempts, and other runs may take   *)
(* their steps in between.  A process keeps the instance its query         *)
(* returned; the instance methods compute from that instance.              *)
(***************************************************************************)
LoginStep(p, proc, table) ==
  /\ procs' = [procs EXCEPT ![p] = proc]
  /\ clients' = table
  /\ last' = [op |-> "login-step", proc |-> p, await |-> procs[p].pc]
  /\ UNCHANGED <<now, users, issued, revokedTokens, subject>>

LoginCall(email, password) ==
  /\ Len(procs) < MaxLogins
  /\ procs' = Append(procs, [pc |-> "findActiveByEmail", email |-> email,
                             password |-> password, id |-> {}, instance |-> {},
                             code |-> {}])
  /\ last' = [op |-> "login-call", proc |-> Len(procs) + 1, await |-> "start"]
  /\ UNCHANGED <<now, clients, users, issued, revokedTokens, subject>>

(* findActiveByEmail, then the synchronous isLocked() on the instance.      *)
AwaitFindClient(p) ==
  /\ procs[p].pc = "findActiveByEmail"
  /\ LET found == findActiveByEmail(clients, procs[p].email) IN
     LoginStep(p,
       IF found = {}
       THEN [procs[p] EXCEPT !.pc = "done", !.code = {"EMAIL_NOT_FOUND"}]
       ELSE LET id == CHOOSE i \in found : TRUE IN
            IF isLocked(clients[id], now)
            THEN [procs[p] EXCEPT !.pc = "done", !.id = {id},
                                  !.instance = {clients[id]},
                                  !.code = {"ACCOUNT_LOCKED"}]
            ELSE [procs[p] EXCEPT !.pc = "validatePassword", !.id = {id},
                                  !.instance = {clients[id]}],
       clients)

AwaitValidatePassword(p) ==
  /\ procs[p].pc = "validatePassword"
  /\ LET instance == CHOOSE r \in procs[p].instance : TRUE IN
     LoginStep(p,
       [procs[p] EXCEPT !.pc = IF validatePassword(instance, procs[p].password)
                               THEN "resetLoginAttempts"
                               ELSE "incrementLoginAttempts"],
       clients)

(* this.update(updates): the columns named in updates are written with the *)
(* values computed from the instance.                                      *)
AwaitIncrement(p) ==
  /\ procs[p].pc = "incrementLoginAttempts"
  /\ LET instance == CHOOSE r \in procs[p].instance : TRUE
         id == CHOOSE i \in procs[p].id : TRUE
         updated == incrementLoginAttempts(instance, now)
     IN LoginStep(p,
          [procs[p] EXCEPT !.pc = "done", !.instance = {updated},
                           !.code = {"INVALID_PASSWORD"}],
          [clients EXCEPT ![id].loginAttempts = updated.loginAttempts,
                          ![id].lockedUntil =
                             IF instance.loginAttempts + 1 >= LOCK_THRESHOLD
                             THEN updated.lockedUntil ELSE @])

AwaitReset(p) ==
  /\ procs[p].pc = "resetLoginAttempts"
  /\ LET instance == CHOOSE r \in procs[p].instance : TRUE
         id == CHOOSE i \in procs[p].id : TRUE
         updated == resetLoginAttempts(instance, now)
     IN LoginStep(p,
          [procs[p] EXCEPT !.pc = "done", !.instance = {updated}, !.code = {"OK"}],
          [clients EXCEPT ![id].loginAttempts = updated.loginAttempts,
                          ![id].lockedUntil = updated.lockedUntil,
                          ![id].lastLogin = updated.lastLogin])

StartLoginCall ==
  \E email \in {ClientEmail, UnknownEmail}, password \in Passwords :
    LoginCall(email, password)

NextLoginConc ==
  \/ StartLoginCall
  \/ \E p \in DOMAIN procs : AwaitFindClient(p)
  \/ \E p \in DOMAIN procs : AwaitValidatePassword(p)
  \/ \E p \in DOMAIN procs : AwaitIncrement(p)
  \/ \E p \in DOMAIN procs : AwaitReset(p)

SpecLoginConc == Init /\ [][NextLoginConc]_vars

(***************************************************************************)
(* Permission resolver (middleware/authorize.js).  A principal under check *)
(* (req.user) has an optional role and a permissions map from permission   *)
(* name to true, false or another JSON value; here the value is {TRUE},    *)
(* {FALSE} or {} and the role is {role} or {} when absent.                 *)
(***************************************************************************)
DEFAULT_PERMISSIONS ==
  [super_admin |-> <<"manage_all", "delete_users", "modify_system", "view_analytics",
                     "manage_payments", "manage_clients", "manage_products",
                     "manage_promotions">>,
   admin |-> <<"manage_clients", "manage_products", "manage_payments",
               "view_analytics", "manage_promotions", "create_users">>,
   staff |-> <<"view_clients", "update_clients", "process_payments",
               "view_products", "update_products">>,
   client |-> <<"view_own_profile", "update_own_profile", "view_own_payments",
                "make_payments", "use_gym_services">>]

(* Array.prototype.sort() order of the permission names in use.            *)
PermissionOrder ==
  <<"create_users", "custom_permission", "delete_users",
    "make_payments", "manage_all", "manage_clients",
    "manage_payments", "manage_products", "manage_promotions",
    "modify_system", "process_payments", "update_clients",
    "update_own_profile", "update_products", "use_gym_services",
    "view_analytics", "view_clients", "view_own_payments",
    "view_own_profile", "view_products", "view_users">>

PermissionNames == Range(PermissionOrder)

sort(perms) == SelectSeq(PermissionOrder, LAMBDA x : x \in Range(perms))

includes(perms, x) == x \in Range(perms)

roleOrClient(user) == IF user.role = {} THEN "client" ELSE CHOOSE r \in user.role : TRUE

defaultPermsOf(role) ==
  IF role \in DOMAIN DEFAULT_PERMISSIONS THEN DEFAULT_PERMISSIONS[role] ELSE <<>>

(* userPerms[permission]: {} when the key is absent.                       *)
specificPermOf(user, permission) ==
  IF permission \in DOMAIN user.permissions THEN user.permissions[permission] ELSE {}

requirePermission_noDeny(user, permission) ==
  IF user = {} THEN [status |-> 401, code |-> "AUTHENTICATION_REQUIRED"]
  ELSE LET u == CHOOSE x \in user : TRUE IN
    IF u.role = {"super_admin"} THEN [status |-> 200, code |-> "next"]
    ELSE LET defaultPerms == defaultPermsOf(roleOrClient(u))
             specificPerm == specificPermOf(u, permission)
             hasDefaultPerm == includes(defaultPerms, permission)
             hasSpecificPerm == specificPerm = {TRUE}
         IN IF hasDefaultPerm \/ hasSpecificPerm
            THEN [status |-> 200, code |-> "next"]
            ELSE [status |-> 403, code |-> "PERMISSION_REQUIRED"]

requirePermission(user, permission) ==
  IF user = {} THEN [status |-> 401, code |-> "AUTHENTICATION_REQUIRED"]
  ELSE LET u == CHOOSE x \in user : TRUE IN
    IF u.role = {"super_admin"} THEN [status |-> 200, code |-> "next"]
    ELSE LET defaultPerms == defaultPermsOf(roleOrClient(u))
             specificPerm == specificPermOf(u, permission)
             hasDefaultPerm == includes(defaultPerms, permission)
             hasSpecificPerm == specificPerm = {TRUE}
             isDeniedSpecific == specificPerm = {FALSE}
         IN IF isDeniedSpecific
            THEN [status |-> 403, code |-> "PERMISSION_DENIED"]
            ELSE IF hasDefaultPerm \/ hasSpecificPerm
            THEN [status |-> 200, code |-> "next"]
            ELSE [status |-> 403, code |-> "PERMISSION_REQUIRED"]

RECURSIVE pushGranted(_, _, _)
pushGranted(effectivePerms, keys, userPerms) ==
  IF keys = <<>> THEN effectivePerms
  ELSE LET perm == Head(keys) IN
       pushGranted(IF userPerms[perm] = {TRUE} /\ ~includes(effectivePerms, perm)
                   THEN Append(effectivePerms, perm) ELSE effectivePerms,
                   Tail(keys), userPerms)

getUserPermissions(user) ==
  IF user = {} THEN <<>>
  ELSE LET u == CHOOSE x \in user : TRUE
           defaultPerms == defaultPermsOf(roleOrClient(u))
           userPerms == u.permissions
           keys == SelectSeq(PermissionOrder, LAMBDA k : k \in DOMAIN userPerms)
           effectivePerms == pushGranted(defaultPerms, keys, userPerms)
           finalPerms == SelectSeq(effectivePerms,
                                   LAMBDA perm : specificPermOf(u, perm) # {FALSE})
       IN sort(finalPerms)

requireAnyPermission(user, permissions) ==
  IF user = {} THEN [status |-> 401, code |-> "AUTHENTICATION_REQUIRED"]
  ELSE LET u == CHOOSE x \in user : TRUE IN
    IF permissions = <<>> THEN [status |-> 200, code |-> "next"]
    ELSE IF u.role = {"super_admin"} THEN [status |-> 200, code |-> "next"]
    ELSE LET defaultPerms == defaultPermsOf(roleOrClient(u))
             hasAnyPermission ==
               \E i \in DOMAIN permissions :
                 LET permission == permissions[i]
                     hasDefault == includes(defaultPerms, permission)
                     hasSpecific == specificPermOf(u, permission) = {TRUE}
                     isDenied == specificPermOf(u, permission) = {FALSE}
                 IN (hasDefault \/ hasSpecific) /\ ~isDenied
         IN IF ~hasAnyPermission
            THEN [status |-> 403, code |-> "ANY_PERMISSION_REQUIRED"]
            ELSE [status |-> 200, code |-> "next"]

(***************************************************************************)
(* Specification of permission checks: the authentication middleware sets  *)
(* req.user (subject) to a principal with some role and override map, then *)
(* requirePermission(name) and getUserPermissions run on it.               *)
(***************************************************************************)
Roles == {{"super_admin"}, {"admin"}, {"staff"}, {}}

OverrideKeys ==
  {"manage_clients", "view_clients", "delete_users", "custom_permission",
   "view_own_profile"}

OverrideMaps ==
  UNION {[keys -> {{TRUE}, {FALSE}, {}}] :
           keys \in {k \in SUBSET OverrideKeys : Cardinality(k) <= MaxOverrides}}

SetReqUser(user) ==
  /\ subject' = user
  /\ last' = [op |-> "authenticate"]
  /\ UNCHANGED <<now, clients, users, issued, revokedTokens, procs>>

RequirePermission(permission) ==
  /\ last' = [op |-> "requirePermission", permission |-> permission,
              response |-> requirePermission(subject, permission)]
  /\ UNCHANGED <<now, clients, users, issued, revokedTokens, procs, subject>>

GetUserPermissions ==
  /\ last' = [op |-> "getUserPermissions", permissions |-> getUserPermissions(subject)]
  /\ UNCHANGED <<now, clients, users, issued, revokedTokens, procs, subject>>

Authenticate ==
  \/ \E role \in Roles, permissions \in OverrideMaps :
       SetReqUser({[role |-> role, permissions |-> permissions]})
  \/ SetReqUser({})

CheckPermission == \E permission \in PermissionNames : RequirePermission(permission)

RequireAnyPermission(permissions) ==
  /\ last' = [op |-> "requireAnyPermission", permissions |-> permissions,
              response |-> requireAnyPermission(subject, permissions)]
  /\ UNCHANGED <<now, clients, users, issued, revokedTokens, procs, subject>>

(* The lists the routes pass: GET /api/clients/stats asks for one of       *)
(* view_analytics, manage_clients.                                         *)
AnyPermissionLists == {<<>>, <<"view_analytics", "manage_clients">>, <<"manage_all">>}

CheckAnyPermission == \E permissions \in AnyPermissionLists : RequireAnyPermission(permissions)

NextPerm ==
  \/ Authenticate
  \/ CheckPermission
  \/ CheckAnyPermission
  \/ GetUserPermissions

SpecPerm == Init /\ [][NextPerm]_vars

(***************************************************************************)
(* Role and ownership gates (middleware/authorize.js).  The principal      *)
(* under check also carries its id; the resource id is the URL parameter,  *)
(* {} when the parameter is missing.                                       *)
(***************************************************************************)
requireRole_strict(user, minimumRole) ==
  IF user = {} THEN [status |-> 401, code |-> "AUTHENTICATION_REQUIRED"]
  ELSE LET u == CHOOSE x \in user : TRUE
           userLevel == roleLevel(roleOrClient(u))
           requiredLevel == roleLevel(minimumRole)
       IN IF userLevel <= requiredLevel
          THEN [status |-> 403, code |-> "INSUFFICIENT_ROLE"]
          ELSE [status |-> 200, code |-> "next"]

requireRole(user, minimumRole) ==
  IF user = {} THEN [status |-> 401, code |-> "AUTHENTICATION_REQUIRED"]
  ELSE LET u == CHOOSE x \in user : TRUE
           userLevel == roleLevel(roleOrClient(u))
           requiredLevel == roleLevel(minimumRole)
       IN IF userLevel < requiredLevel
          THEN [status |-> 403, code |-> "INSUFFICIENT_ROLE"]
          ELSE [status |-> 200, code |-> "next"]

requireOwnership_staffOverride(user, resourceId, allowAdmins) ==
  IF user = {} THEN [status |-> 401, code |-> "AUTHENTICATION_REQUIRED"]
  ELSE LET u == CHOOSE x \in user : TRUE IN
    IF allowAdmins /\ \E role \in u.role : roleLevel(role) >= 2
    THEN [status |-> 200, code |-> "next"]
    ELSE IF resourceId = {} THEN [status |-> 400, code |-> "RESOURCE_ID_REQUIRED"]
    ELSE IF resourceId # {u.id}
    THEN [status |-> 403, code |-> "RESOURCE_OWNERSHIP_REQUIRED"]
    ELSE [status |-> 200, code |-> "next"]

requireOwnership(user, resourceId, allowAdmins) ==
  IF user = {} THEN [status |-> 401, code |-> "AUTHENTICATION_REQUIRED"]
  ELSE LET u == CHOOSE x \in user : TRUE IN
    IF allowAdmins /\ \E role \in u.role : roleLevel(role) >= 3
    THEN [status |-> 200, code |-> "next"]
    ELSE IF resourceId = {} THEN [status |-> 400, code |-> "RESOURCE_ID_REQUIRED"]
    ELSE IF resourceId # {u.id}
    THEN [status |-> 403, code |-> "RESOURCE_OWNERSHIP_REQUIRED"]
    ELSE [status |-> 200, code |-> "next"]

(***************************************************************************)
(* Specification of the role and ownership gates: the authentication       *)
(* middleware sets req.user to a principal with some id and role, then     *)
(* requireRole(minimumRole) and requireOwnership run on it.                *)
(***************************************************************************)
PrincipalIds == {"u1", "u2", "u3"}

MinimumRoles == DOMAIN ROLE_HIERARCHY

RequireRole(minimumRole) ==
  /\ last' = [op |-> "requireRole", minimumRole |-> minimumRole,
              response |-> requireRole(subject, minimumRole)]
  /\ UNCHANGED <<now, clients, users, issued, revokedTokens, procs, subject>>

RequireOwnership(resourceId, allowAdmins) ==
  /\ last' = [op |-> "requireOwnership", resourceId |-> resourceId,
              allowAdmins |-> allowAdmins,
              response |-> requireOwnership(subject, resourceId, allowAdmins)]
  /\ UNCHANGED <<now, clients, users, issued, revokedTokens, procs, subject>>

AuthenticateWithId ==
  \/ \E id \in PrincipalIds, role \in Roles :
       SetReqUser({[role |-> role, permissions |-> NoPermissions, id |-> id]})
  \/ SetReqUser({})

CheckRole == \E minimumRole \in MinimumRoles : RequireRole(minimumRole)

CheckOwnership ==
  \E resourceId \in {{}} \cup {{id} : id \in PrincipalIds}, allowAdmins \in BOOLEAN :
    RequireOwnership(resourceId, allowAdmins)

NextAccess ==
  \/ AuthenticateWithId
  \/ CheckRole
  \/ CheckOwnership

SpecAccess == Init /\ [][NextAccess]_vars

(***************************************************************************)
(* User management (controllers/userController.js behind the routes of     *)
(* /api/users): requireAuth and requireUserType('user') admit an active,   *)
(* undeleted user as req.user, requirePermission gates the route, then the *)
(* controller compares role levels.                                        *)
(***************************************************************************)
asReqUser(table, actor) ==
  {[role |-> {table[i].role}, permissions |-> table[i].permissions, id |-> i]
   : i \in {j \in findByPk(table, actor) : table[j].isActive}}

createUser_allowEqual(table, actor, body, t) ==
  LET currentUserLevel == roleLevel(table[actor].role)
      newUserLevel == roleLevel(body.role)
      after == Append(table, NewUser(toLowerCase(body.email), body.password,
                                     body.role, body.permissions))
  IN IF newUserLevel > currentUserLevel
     THEN [status |-> 403, code |-> "INSUFFICIENT_ROLE_LEVEL", table |-> table]
     ELSE IF \E i \in DOMAIN table :
               table[i].email = toLowerCase(body.email) /\ table[i].deletedAt = {}
     THEN [status |-> 409, code |-> "ADMIN_EMAIL_EXISTS", table |-> table]
     ELSE IF \E i \in DOMAIN table : table[i].email = toLowerCase(body.email)
     THEN [status |-> 409, code |-> "UNIQUE_CONSTRAINT_ERROR", table |-> table]
     ELSE [status |-> 201, code |-> "OK", table |-> after]

createUser(table, actor, body, t) ==
  LET currentUserLevel == roleLevel(table[actor].role)
      newUserLevel == roleLevel(body.role)
      after == Append(table, NewUser(toLowerCase(body.email), body.password,
                                     body.role, body.permissions))
  IN IF newUserLevel >= currentUserLevel
     THEN [status |-> 403, code |-> "INSUFFICIENT_ROLE_LEVEL", table |-> table]
     ELSE IF \E i \in DOMAIN table :
               table[i].email = toLowerCase(body.email) /\ table[i].deletedAt = {}
     THEN [status |-> 409, code |-> "ADMIN_EMAIL_EXISTS", table |-> table]
     ELSE IF \E i \in DOMAIN table : table[i].email = toLowerCase(body.email)
     THEN [status |-> 409, code |-> "UNIQUE_CONSTRAINT_ERROR", table |-> table]
     ELSE [status |-> 201, code |-> "OK", table |-> after]

deleteUser(table, actor, id, t) ==
  LET currentUserLevel == roleLevel(table[actor].role)
      targetUserLevel == roleLevel(table[id].role)
  IN IF findByPk(table, id) = {}
     THEN [status |-> 404, code |-> "USER_NOT_FOUND", table |-> table]
     ELSE IF targetUserLevel >= currentUserLevel
     THEN [status |-> 403, code |-> "INSUFFICIENT_PERMISSIONS", table |-> table]
     ELSE IF id = actor
     THEN [status |-> 400, code |-> "CANNOT_DELETE_SELF", table |-> table]
     ELSE [status |-> 200, code |-> "OK",
           table |-> [table EXCEPT ![id].deletedAt = {t}]]

(* A route of /api/users: authentication, the permission gate, then the    *)
(* controller's result r (evaluated only when the gates pass).             *)
UserRoute(op, actor, id, permission, status, code, table) ==
  LET reqUser == asReqUser(users, actor)
      gate == requirePermission(reqUser, permission)
  IN /\ IF reqUser = {}
        THEN /\ users' = users
             /\ last' = [op |-> op, actor |-> actor, id |-> id, status |-> 401,
                         code |-> "AUTHENTICATION_REQUIRED"]
        ELSE IF gate.status # 200
        THEN /\ users' = users
             /\ last' = [op |-> op, actor |-> actor, id |-> id,
                         status |-> gate.status, code |-> gate.code]
        ELSE /\ users' = table
             /\ last' = [op |-> op, actor |-> actor, id |-> id,
                         status |-> status, code |-> code]
     /\ UNCHANGED <<now, clients, issued, revokedTokens, procs, subject>>

PostUser(actor, body) ==
  /\ actor \in DOMAIN users
  /\ Len(users) < MaxUsers
  /\ LET r == createUser(users, actor, body, now) IN
     UserRoute("createUser", actor, Len(r.table), "create_users",
               r.status, r.code, r.table)

PutUser(actor, id, body) ==
  /\ actor \in DOMAIN users /\ id \in DOMAIN users
  /\ LET r == updateUser(users, actor, id, body) IN
     UserRoute("updateUser", actor, id, "update_users", r.status, r.code, r.table)

DeleteUser(actor, id) ==
  /\ actor \in DOMAIN users /\ id \in DOMAIN users
  /\ LET r == deleteUser(users, actor, id, now) IN
     UserRoute("deleteUser", actor, id, "delete_users", r.status, r.code, r.table)

(***************************************************************************)
(* Specification of user management: the super_admin and the staff user    *)
(* of Init; any user calls the three routes with any role of the role      *)
(* ENUM, and a permissions body is either empty or grants the three user   *)
(* management permissions.                                                 *)
(***************************************************************************)
UserRoles == {"super_admin", "admin", "staff"}

ManagerEmail == "m@x.com"

UserGrants == [k \in {"create_users", "update_users", "delete_users"} |-> {TRUE}]

CreateUserCall ==
  \E actor \in DOMAIN users, role \in UserRoles,
     email \in {ManagerEmail, UnknownEmail}, permissions \in {NoPermissions, UserGrants} :
    PostUser(actor, [email |-> email, password |-> GoodPassword, role |-> role,
                     permissions |-> permissions])

UpdateUserCall ==
  \E actor \in DOMAIN users, id \in DOMAIN users,
     role \in {{}} \cup {{r} : r \in UserRoles},
     permissions \in {{}, {NoPermissions}, {UserGrants}} :
    PutUser(actor, id, [role |-> role, permissions |-> permissions, isActive |-> {}])

DeleteUserCall == \E actor \in DOMAIN users, id \in DOMAIN users : DeleteUser(actor, id)

NextUsers ==
  \/ CreateUserCall
  \/ UpdateUserCall
  \/ DeleteUserCall

SpecUsers == Init /\ [][NextUsers]_vars

(***************************************************************************)
(* Protected routes behind an authorization gate: requireAuth (the 'jwt'   *)
(* strategy) sets req.user to the row it loaded, then requireRole or       *)
(* requirePermission reads req.user.role and req.user.permissions.  A      *)
(* client row has neither field.                                           *)
(***************************************************************************)
reqUser_fromCredential(payload, cs, us) ==
  [role |-> payload.role, permissions |-> payload.permissions, id |-> payload.id]

reqUser(payload, cs, us) ==
  IF payload.type = "user"
  THEN [role |-> {us[payload.id].role}, permissions |-> us[payload.id].permissions,
        id |-> payload.id]
  ELSE [role |-> {}, permissions |-> NoPermissions, id |-> payload.id]

GatedRequest(header, gate, arg) ==
  LET r == jwtStrategy(header, clients, users, now)
      user == {reqUser((CHOOSE x \in header : TRUE).payload, r.clients, r.users)
               : u \in r.user}
      response == IF gate = "requireRole" THEN requireRole(user, arg)
                  ELSE requirePermission(user, arg)
  IN /\ clients' = r.clients
     /\ users' = r.users
     /\ last' = [op |-> "gated", header |-> header, gate |-> gate, arg |-> arg,
                 status |-> response.status, code |-> response.code]
     /\ UNCHANGED <<now, issued, revokedTokens, procs, subject>>

(***************************************************************************)
(* Specification of gated routes: the staff user and the client log in and *)
(* keep their credentials; the super_admin changes the staff user's role,  *)
(* overrides and active flag, the client is activated and deactivated; the *)
(* clock advances in steps of one day.                                     *)
(***************************************************************************)
GatedPermissions == {"view_clients", "view_analytics"}

StoredOverrides ==
  {NoPermissions, [k \in {"view_clients"} |-> {FALSE}],
   [k \in {"view_analytics"} |-> {TRUE}]}

TickGate == Tick(JwtTickMs, MaxGateTicks)

ChangeUser ==
  \E role \in {{}, {"staff"}, {"admin"}},
     permissions \in {{}} \cup {{f} : f \in StoredOverrides},
     isActive \in {{}, {TRUE}, {FALSE}} :
    UpdateUser(1, 2, [role |-> role, permissions |-> permissions,
                      isActive |-> isActive])

GatedCall ==
  \E t \in Presented :
    \/ \E minimumRole \in MinimumRoles : GatedRequest({t}, "requireRole", minimumRole)
    \/ \E permission \in GatedPermissions :
         GatedRequest({t}, "requirePermission", permission)

NextGate ==
  \/ LoginClientKeep
  \/ LoginAdminKeep
  \/ ChangeUser
  \/ SetClientActive
  \/ GatedCall
  \/ TickGate

SpecGate == Init /\ [][NextGate]_vars

(***************************************************************************)
(* Claims about password login and lockout (specification Spec).           *)
(***************************************************************************)
FailedPassword(op) == last'.op = op /\ last'.code = "INVALID_PASSWORD"

LockoutStep(op, before, after) ==
  \A i \in DOMAIN before :
    (FailedPassword(op) /\ before[i].email = toLowerCase(last'.email)) =>
      /\ after[i].loginAttempts = before[i].loginAttempts + 1
      /\ IF after[i].loginAttempts >= 5
         THEN /\ after[i].lockedUntil = {now + 30 * 60 * 1000}
              /\ isLocked(after[i], now')
         ELSE /\ after[i].lockedUntil = {}
              /\ ~isLocked(after[i], now')

(* C4: every failed password login of an existing active principal adds    *)
(* exactly one to its counter; the failure that brings the counter to 5    *)
(* (or beyond) sets lockedUntil = now + 30 minutes and keeps the counter,  *)
(* so the principal is locked; below 5 there is no lock.                   *)
C4_FailureCountsAndLocks ==
  [][LockoutStep("loginClient", clients, clients')
     /\ LockoutStep("loginAdmin", users, users')]_vars

C4_Witness ==
  /\ last.op = "loginClient" /\ last.code = "INVALID_PASSWORD"
  /\ clients[1].loginAttempts = 5
  /\ clients[1].lockedUntil = {now + 30 * 60 * 1000}
  /\ users[2].loginAttempts = 5 /\ isLocked(users[2], now)

LockedLoginStep(op, before, mustBeActive) ==
  \A i \in DOMAIN before :
    (/\ last'.op = op
     /\ before[i].email = toLowerCase(last'.email)
     /\ isLocked(before[i], now)
     /\ (mustBeActive => before[i].isActive)) =>
      /\ last'.code = "ACCOUNT_LOCKED"
      /\ ~last'.passwordChecked

SuccessResets(op, table) ==
  (last.op = op /\ last.status = 200) =>
    \A id \in last.user :
      /\ table[id].loginAttempts = 0
      /\ table[id].lockedUntil = {}
      /\ table[id].lastLogin = {now}
      /\ ~isLocked(table[id], now)

(* C6: a successful password login leaves the principal with counter 0,   *)
(* lockedUntil null and lastLogin = now, whatever they were before; a      *)
(* principal with fewer than five counted failures is never locked.        *)
C6_SuccessResetsLockout ==
  /\ SuccessResets("loginClient", clients)
  /\ SuccessResets("loginAdmin", users)
  /\ \A i \in DOMAIN clients : clients[i].loginAttempts < 5 => ~isLocked(clients[i], now)
  /\ \A i \in DOMAIN users : users[i].loginAttempts < 5 => ~isLocked(users[i], now)

C6_Witness ==
  /\ last.op = "loginClient" /\ last.status = 200
  /\ \E b \in last.before : b.loginAttempts >= 5 /\ b.lockedUntil # {}
  /\ clients[1].loginAttempts = 0

LockExpired(row, t) == \E u \in row.lockedUntil : u <= t

ExpiredLockStep(op, before, after) ==
  \A i \in DOMAIN before :
    /\ (\/ after[i].loginAttempts < before[i].loginAttempts
        \/ (before[i].lockedUntil # {} /\ after[i].lockedUntil = {}))
         => (last'.op = op /\ last'.status = 200 /\ last'.user = {i})
    /\ (/\ last'.op = op
        /\ before[i].email = toLowerCase(last'.email)
        /\ before[i].isActive
        /\ LockExpired(before[i], now))
         => /\ before[i].loginAttempts >= 5
            /\ last'.passwordChecked
            /\ last'.code = "INVALID_PASSWORD" =>
                 /\ after[i].loginAttempts = before[i].loginAttempts + 1
                 /\ after[i].lockedUntil = {now + 30 * 60 * 1000}

(* C28: a lock ends only by time and leaves the counter alone: no step but *)
(* a successful login lowers loginAttempts or clears lockedUntil; a login  *)
(* for a principal whose lockedUntil has passed verifies the password      *)
(* again, and if it fails the counter goes up by one (5 to 6) and          *)
(* lockedUntil is set to now + 30 minutes at once.                         *)
C28_ExpiredLockRelocks ==
  [][ExpiredLockStep("loginClient", clients, clients')
     /\ ExpiredLockStep("loginAdmin", users, users')]_vars

C28_Witness ==
  /\ last.op = "loginClient" /\ last.code = "INVALID_PASSWORD"
  /\ \E b \in last.before : b.loginAttempts = 5 /\ LockExpired(b, now)
  /\ clients[1].loginAttempts = 6
  /\ clients[1].lockedUntil = {now + 30 * 60 * 1000}

(* C7: a failed password login is opaque: the status, code and message     *)
(* returned for a known email with a wrong password are those returned     *)
(* for an unknown email.                                                   *)
C7_FailedLoginOpaque ==
  /\ (last.op = "loginClient" /\ last.status = 401 /\ last.passwordChecked) =>
       <<last.status, last.code, last.message>> =
         Visible(loginClientResponse(localClient(clients, UnknownEmail, BadPassword, now)))
  /\ (last.op = "loginAdmin" /\ last.status = 401 /\ last.passwordChecked) =>
       <<last.status, last.code, last.message>> =
         Visible(loginAdminResponse(localUser(users, UnknownEmail, BadPassword, now)))

(***************************************************************************)
(* Claims about credentials and revocation (specification SpecJwt).        *)
(***************************************************************************)

(* C1: a protected request that presents a credential found in the         *)
(* revocation set is rejected as unauthenticated.                          *)
C1_RevokedCredentialRejected ==
  (last.op = "protected" /\ last.header # {} /\ last.header \subseteq revokedTokens)
    => last.status = 401

Unusable(token, revoked, t) == ~verifyToken(token, revoked, t).ok

(* C2: once verifyToken fails for a credential (in particular from the     *)
(* moment revokeToken has added it) it fails in every later state,         *)
(* whatever logout, cleanup or the clock do; and an entry leaves the       *)
(* revocation set only after its expiry has passed.                        *)
C2_RevokedStaysUnusable ==
  [][\A tok \in Presented \cup revokedTokens :
       /\ Unusable(tok, revokedTokens, now) => Unusable(tok, revokedTokens', now')
       /\ (tok \in revokedTokens /\ tok \notin revokedTokens') =>
            (tok.form = "jwt" /\ tok.payload.exp < seconds(now))]_vars

C2_Witness ==
  /\ last.op = "cleanup"
  /\ \E tok \in revokedTokens :
       jwtVerify(tok, JWT_SECRET, JWT_ISSUER, JWT_AUDIENCE, now) = "ok"

(* C25: when several failed password logins of one principal are in flight *)
(* at once, no increment is lost: once all of them have returned, and none *)
(* of the logins in flight carried the right password, loginAttempts is    *)
(* the number of runs that ended with INVALID_PASSWORD.                    *)
FailedRuns == {p \in DOMAIN procs : procs[p].code = {"INVALID_PASSWORD"}}

C25_NoLostIncrement ==
  (/\ \A p \in DOMAIN procs : procs[p].pc = "done"
   /\ \A p \in DOMAIN procs : procs[p].password = BadPassword)
  => clients[1].loginAttempts = Cardinality(FailedRuns)

(* C23: a cleanupRevokedTokens call leaves no entry behind whose expiry has *)
(* passed, whatever logout or revokeToken inserted: after the call every   *)
(* entry of the revocation set is a credential that has not expired yet.   *)
C23_CleanupPurgesExpired ==
  [][last'.op = "cleanup" =>
       \A tok \in revokedTokens' :
         \E info \in getTokenInfo(tok) : ~(info.expiresAt \div 1000 < seconds(now))
    ]_vars

IsRefreshCredential(tok) ==
  /\ tok \in issued
  /\ "tokenType" \in DOMAIN tok.payload
  /\ tok.payload.tokenType = "refresh"

PrincipalActive(tok) ==
  LET table == IF tok.payload.userType = "user" THEN users ELSE clients IN
  \E i \in findByPk(table, tok.payload.userId) : table[i].isActive

(* C3: refresh with an unexpired, unrevoked refresh credential of an       *)
(* active principal succeeds, returns one new access credential and        *)
(* leaves the refresh credential unrevoked.                                *)
C3_RefreshSucceeds ==
  \A tok \in (IF last.op = "refresh" THEN last.body ELSE {}) :
    (/\ IsRefreshCredential(tok)
     /\ seconds(now) < tok.payload.exp
     /\ tok \notin revokedTokens
     /\ PrincipalActive(tok)) =>
      /\ last.status = 200
      /\ \E a \in last.tokens : "tokenType" \notin DOMAIN a.payload
      /\ tok \notin revokedTokens

(* C29: a protected request that presents a refresh credential as its      *)
(* bearer token is rejected as unauthenticated by the 'jwt' strategy,      *)
(* whether or not the credential has expired, is revoked or its principal  *)
(* is active.                                                              *)
C29_RefreshNeverAuthenticates ==
  (last.op = "protected" /\ \E tok \in last.header : IsRefreshCredential(tok))
    => (last.status = 401 /\ last.user = {})

C29_Witness ==
  /\ last.op = "protected" /\ last.status = 401
  /\ \E tok \in last.header :
       /\ IsRefreshCredential(tok)
       /\ seconds(now) < tok.payload.exp
       /\ tok \notin revokedTokens
       /\ PrincipalActive(tok)

IsAccessCredential(tok) ==
  /\ tok \in issued
  /\ "tokenType" \notin DOMAIN tok.payload

(* The principal a credential was issued for, as the login handler read    *)
(* it: its id, email, kind and role.                                       *)
IssuedFor(tok) ==
  LET table == IF tok.payload.type = "user" THEN users ELSE clients
      id == tok.payload.id
  IN /\ id \in DOMAIN table
     /\ tok.payload.email = table[id].email
     /\ tok.payload.role = IF tok.payload.type = "user" THEN {table[id].role} ELSE {}

(* C12: verifyToken applied to an access credential generateAccessToken    *)
(* returned succeeds while the credential is unexpired and not revoked,    *)
(* and the decoded payload carries the id, email, type and role issued.    *)
C12_IssueVerifyRoundTrip ==
  \A tok \in issued :
    (/\ IsAccessCredential(tok)
     /\ seconds(now) < tok.payload.exp
     /\ tok \notin revokedTokens) =>
      LET v == verifyToken(tok, revokedTokens, now) IN
      /\ v.ok
      /\ v.decoded.id = tok.payload.id
      /\ v.decoded.email = tok.payload.email
      /\ v.decoded.type = tok.payload.type
      /\ v.decoded.role = tok.payload.role
      /\ IssuedFor(tok)

C12_Witness ==
  /\ last.op = "loginAdmin"
  /\ last.status = 200
  /\ \E pair \in last.tokens :
       /\ pair.accessToken \in issued
       /\ verifyToken(pair.accessToken, revokedTokens, now).ok
       /\ verifyToken(pair.accessToken, revokedTokens, now).decoded.role = {"staff"}

(* C13: verifyToken accepts the refresh credential of every pair           *)
(* generateTokenPair returned, while it is unexpired and not revoked, and  *)
(* the decoded payload has the principal's id as userId and tokenType      *)
(* 'refresh'.                                                              *)
C13_RefreshCredentialVerifies ==
  \A tok \in issued :
    (/\ IsRefreshCredential(tok)
     /\ seconds(now) < tok.payload.exp
     /\ tok \notin revokedTokens) =>
      LET v == verifyToken(tok, revokedTokens, now) IN
      /\ v.ok
      /\ v.decoded.userId = tok.payload.userId
      /\ v.decoded.tokenType = "refresh"

HasRefreshType(tok) ==
  /\ tok.form = "jwt"
  /\ "tokenType" \in DOMAIN tok.payload
  /\ tok.payload.tokenType = "refresh"

NothingIssued ==
  /\ last'.status # 200
  /\ last'.tokens = {}
  /\ issued' = issued

(* C14: refresh issues an access credential only when the presented        *)
(* credential verifies and carries tokenType 'refresh'; a valid access     *)
(* credential, or any credential without that token type, presented to     *)
(* refresh fails and nothing is issued.                                    *)
C14_RefreshNeedsRefreshType ==
  [][last'.op = "refresh" =>
       /\ last'.status = 200 =>
            \E tok \in last'.body :
              verifyToken(tok, revokedTokens, now).ok /\ HasRefreshType(tok)
       /\ \A tok \in last'.body : ~HasRefreshType(tok) => NothingIssued
  ]_vars

C14_Witness ==
  /\ last.op = "refresh"
  /\ last.status = 401
  /\ last.tokens = {}
  /\ \E tok \in last.body :
       IsAccessCredential(tok) /\ verifyToken(tok, revokedTokens, now).ok

ValidlySigned(tok) == tok.form = "jwt" /\ tok.key = JWT_SECRET

(* C16: verifyToken applied to a validly signed credential whose exp has   *)
(* passed fails with 'Token expirado' and with no other outcome, whatever  *)
(* the revocation set holds.                                               *)
C16_ExpiredAlwaysExpired ==
  \A tok \in Presented \cup revokedTokens :
    (ValidlySigned(tok) /\ tok.payload.exp < seconds(now)) =>
      verifyToken(tok, revokedTokens, now) = [ok |-> FALSE, error |-> "Token expirado"]

(* The failure a presented credential stands for.                          *)
FailureOf(tok) ==
  IF tok.form # "jwt" THEN "Malformed"
  ELSE IF tok.key # JWT_SECRET THEN "SignatureInvalid"
  ELSE IF tok.payload.exp <= seconds(now) THEN "Expired"
  ELSE IF HasRefreshType(tok) /\ ~PrincipalActive(tok) THEN "AccountInactive"
  ELSE "none"

(* C17: verification failures are distinct and surfaced as-is: two         *)
(* credentials that fail for different reasons (expired, malformed,        *)
(* invalid signature, inactive account) get different errors from          *)
(* verifyToken (for the first three) and from refresh.                     *)
C17_FailuresDistinct ==
  last.op = "refresh" =>
    \A t1, t2 \in Presented \ revokedTokens :
      (FailureOf(t1) # "none" /\ FailureOf(t2) # "none" /\ FailureOf(t1) # FailureOf(t2)) =>
        /\ ("AccountInactive" \notin {FailureOf(t1), FailureOf(t2)} =>
              verifyToken(t1, revokedTokens, now).error
                # verifyToken(t2, revokedTokens, now).error)
        /\ refreshAccessToken(t1, clients, users, revokedTokens, now, NextJti).error
             # refreshAccessToken(t2, clients, users, revokedTokens, now, NextJti).error

(* C18: logout adds the presented access credential and the presented     *)
(* refresh credential (when given) to the revocation set and always        *)
(* reports success, also when no credential or an invalid one is           *)
(* presented.                                                              *)
C18_LogoutRevokesBoth ==
  [][last'.op = "logout" =>
       /\ last'.status = 200
       /\ revokedTokens' = revokedTokens \cup last'.header \cup last'.body
  ]_vars

C18_Witness ==
  /\ last.op = "logout"
  /\ last.status = 200
  /\ last.header = {Garbage}
  /\ \E tok \in last.body : IsRefreshCredential(tok)
  /\ last.header \cup last.body \subseteq revokedTokens

(***************************************************************************)
(* Claims about external-identity login                                    *)
(***************************************************************************)
Finished(proc) == proc.pc \in {"returned", "thrown"}

Carrying(table, provider, oauthId) == findByOAuthId(table, provider, oauthId)

(* C8: two calls of findOrCreateOAuthClient with the same provider and the *)
(* same external profile, run one after the other or interleaved at their  *)
(* store calls, both return the same principal id, and afterwards exactly  *)
(* one principal carries that external id and that email.                  *)
C8_SameProfileSamePrincipal ==
  \A p, q \in DOMAIN procs :
    (/\ p # q
     /\ Finished(procs[p]) /\ Finished(procs[q])
     /\ procs[p].provider = procs[q].provider
     /\ procs[p].profile = procs[q].profile)
    => /\ procs[p].pc = "returned" /\ procs[q].pc = "returned"
       /\ procs[p].result = procs[q].result
       /\ Cardinality(Carrying(clients, procs[p].provider, procs[p].profile.id)) = 1
       /\ Cardinality(findByEmail(clients, CHOOSE e \in procs[p].profile.email : TRUE)) = 1

(* What one callback did, seen from the table before and after it.         *)
ReturnedExisting(id) ==
  /\ last'.status = "ok"
  /\ last'.user = {id}
  /\ Len(clients') = Len(clients)

Bound(row, provider, oauthId) == row[oauthField(provider)] = {oauthId}

OtherProvider(provider) == IF provider = "google" THEN "facebook" ELSE "google"

(* The principal a callback linked by email: none carried the binding, the *)
(* active holder of the profile's email was returned.                      *)
LinkedByEmail ==
  IF last'.op = "oauth" /\ last'.profile.email # {} /\ last'.status = "ok"
     /\ findByOAuthId(clients, last'.provider, last'.profile.id) = {}
  THEN findActiveByEmail(clients, CHOOSE e \in last'.profile.email : TRUE)
  ELSE {}

(* C24: when findOrCreateOAuthClient links a provider to a principal found *)
(* by email and that principal already carried a binding of the other      *)
(* provider, the principal has authProvider 'multiple' after the link.     *)
C24_LinkMarksMultiple ==
  [][\A id \in LinkedByEmail :
       clients[id][oauthField(OtherProvider(last'.provider))] # {} =>
         /\ last'.user = {id}
         /\ clients'[id].authProvider = "multiple"
         /\ clients'[id][oauthField(last'.provider)] = {last'.profile.id}
    ]_vars

C24_Witness ==
  /\ last.op = "oauth" /\ last.status = "ok"
  /\ \E id \in last.user :
       /\ clients[id].googleId # {} /\ clients[id].facebookId # {}
       /\ clients[id].authProvider = "multiple"

(* C26: no login issues a credential pair for a principal whose active     *)
(* flag is false; for external-identity login: whenever a provider         *)
(* callback ends with a credential pair, the principal it resolved         *)
(* (by binding, by email or by creation) is active.                        *)
C26_NoTokensForInactive ==
  (last.op = "oauth" /\ last.tokens # {}) =>
    \A id \in last.user : clients[id].isActive

(* C30: a binding, once set, is never replaced or removed by a later       *)
(* findOrCreateOAuthClient call: at every provider callback each principal *)
(* keeps the googleId and the facebookId it had before the call.           *)
C30_BindingNeverReplaced ==
  [][last'.op = "oauth" =>
       \A id \in DOMAIN clients : \A provider \in Providers :
         clients[id][oauthField(provider)] # {} =>
           clients'[id][oauthField(provider)] = clients[id][oauthField(provider)]
    ]_vars

(* C9: findOrCreateOAuthClient resolves in this order: (1) a principal     *)
(* already bound to (provider, external id) is returned and its lastLogin  *)
(* refreshed; (2) else if a principal exists with the profile's email the  *)
(* binding is attached to it, its email is marked verified and it is       *)
(* returned without creating any principal; (3) only otherwise a new       *)
(* principal is created with the binding.                                  *)
C9_ResolutionOrder ==
  [][(last'.op = "oauth" /\ last'.profile.email # {}) =>
       LET provider == last'.provider
           profile == last'.profile
           byBinding == findByOAuthId(clients, provider, profile.id)
           byEmail == findByEmail(clients, CHOOSE e \in profile.email : TRUE)
       IN IF byBinding # {}
          THEN \E id \in byBinding :
                 /\ ReturnedExisting(id)
                 /\ clients'[id].lastLogin = {now}
          ELSE IF byEmail # {}
          THEN \E id \in byEmail :
                 /\ ReturnedExisting(id)
                 /\ Bound(clients'[id], provider, profile.id)
                 /\ clients'[id].isEmailVerified
          ELSE /\ last'.status = "ok"
               /\ Len(clients') = Len(clients) + 1
               /\ last'.user = {Len(clients')}
               /\ Bound(clients'[Len(clients')], provider, profile.id)
  ]_vars

(***************************************************************************)
(* Claims about the permission resolver                                    *)
(***************************************************************************)
Allowed(u) == {k \in DOMAIN u.permissions : u.permissions[k] = {TRUE}}

Denied(u) == {k \in DOMAIN u.permissions : u.permissions[k] = {FALSE}}

EffectiveSet(u) ==
  (Range(defaultPermsOf(roleOrClient(u))) \cup Allowed(u)) \ Denied(u)

(* C10: for every role other than super_admin (an absent role uses the     *)
(* client default set), every override map and every permission name,      *)
(* requirePermission(name) passes iff name is in the list returned by      *)
(* getUserPermissions, and that list holds exactly the role's defaults     *)
(* plus the overrides set to true minus the overrides set to false.        *)
C10_PermissionIffEffective ==
  \A u \in subject :
    u.role # {"super_admin"} =>
      /\ Range(getUserPermissions(subject)) = EffectiveSet(u)
      /\ \A name \in PermissionNames :
           (requirePermission(subject, name).status = 200)
             <=> includes(getUserPermissions(subject), name)
      /\ last.op = "requirePermission" =>
           ((last.response.status = 200) <=> last.permission \in EffectiveSet(u))

(* A staff principal granted manage_clients passes the check for it while  *)
(* a denied default of the same principal is refused.                      *)
C10_Witness ==
  /\ subject = {[role |-> {"staff"},
                 permissions |-> [k \in {"manage_clients", "view_clients"} |->
                                    IF k = "manage_clients" THEN {TRUE} ELSE {FALSE}]]}
  /\ last.op = "requirePermission"
  /\ last.permission = "manage_clients"
  /\ last.response.status = 200
  /\ ~includes(getUserPermissions(subject), "view_clients")

(* C11: a super_admin resolves to the universal wildcard whatever its      *)
(* overrides: every permission name is allowed by requirePermission and    *)
(* by requireAnyPermission and is among the permissions getUserPermissions *)
(* reports; a false override does not remove a permission.                 *)
C11_SuperAdminWildcard ==
  \A u \in subject :
    u.role = {"super_admin"} =>
      \A name \in PermissionNames :
        /\ requirePermission(subject, name).status = 200
        /\ requireAnyPermission(subject, <<name>>).status = 200
        /\ includes(getUserPermissions(subject), name)

(* C21: an admin without permission overrides passes the gate              *)
(* requirePermission('view_clients') that guards GET /api/clients and      *)
(* GET /api/clients/:id.                                                   *)
C21_AdminViewsClients ==
  (/\ last.op = "requirePermission"
   /\ last.permission = "view_clients"
   /\ subject = {[role |-> {"admin"}, permissions |-> NoPermissions]})
    => last.response.status = 200

(***************************************************************************)
(* Claims about the role and ownership gates (specification SpecAccess)    *)
(***************************************************************************)
(* The hierarchy as a chain, lowest first; the rank of a role is its       *)
(* place in the chain.                                                     *)
RoleOrder == <<"client", "staff", "admin", "super_admin">>

Rank(role) == CHOOSE i \in DOMAIN RoleOrder : RoleOrder[i] = role

(* C19: the role hierarchy is the strict total order super_admin > admin > *)
(* staff > client, and for every authenticated principal (absent role      *)
(* taken as client) and every minimum role, requireRole passes iff the     *)
(* principal's rank is at least the minimum role's rank.                   *)
C19_RequireRoleIffRank ==
  /\ \A r1, r2 \in Range(RoleOrder) :
       (Rank(r1) < Rank(r2)) <=> (ROLE_HIERARCHY[r1] < ROLE_HIERARCHY[r2])
  /\ \A u \in subject : \A minimumRole \in MinimumRoles :
       (requireRole(subject, minimumRole).status = 200)
         <=> Rank(roleOrClient(u)) >= Rank(minimumRole)
  /\ (last.op = "requireRole" /\ subject # {}) =>
       \A u \in subject :
         (last.response.status = 200)
           <=> Rank(roleOrClient(u)) >= Rank(last.minimumRole)

C19_Witness ==
  /\ last.op = "requireRole"
  /\ last.minimumRole = "staff"
  /\ last.response.status = 200
  /\ \E u \in subject : u.role = {"staff"}

(* C20: with the admin override in force (the default), requireOwnership   *)
(* passes iff the resource id is the principal's own id or the principal's *)
(* rank is at least admin's; a staff or client principal never passes for  *)
(* another principal's resource id.                                        *)
C20_OwnershipOrAdmin ==
  /\ \A u \in subject : \A id \in PrincipalIds :
       (requireOwnership(subject, {id}, TRUE).status = 200)
         <=> (id = u.id \/ Rank(roleOrClient(u)) >= Rank("admin"))
  /\ (last.op = "requireOwnership" /\ last.allowAdmins /\ last.resourceId # {}) =>
       \A u \in subject :
         (last.response.status = 200)
           <=> (last.resourceId = {u.id} \/ Rank(roleOrClient(u)) >= Rank("admin"))

C20_Witness ==
  /\ last.op = "requireOwnership"
  /\ last.allowAdmins
  /\ last.resourceId = {"u2"}
  /\ last.response.status = 403
  /\ \E u \in subject : u.role = {"staff"} /\ u.id = "u1"

(***************************************************************************)
(* Claims about user management (specification SpecUsers)                  *)
(***************************************************************************)
UserManagementOps == {"createUser", "updateUser", "deleteUser"}

(* C22: an acting user never creates a user with, or assigns, a role whose *)
(* rank is at least the actor's own, and never updates or deletes a user   *)
(* whose rank is at least the actor's: every row that createUser,          *)
(* updateUser or deleteUser adds or changes has a rank strictly below the  *)
(* actor's, before and after the call.                                     *)
C22_NoRoleEscalation ==
  [][last'.op \in UserManagementOps =>
       LET actorRank == Rank(users[last'.actor].role) IN
       /\ \A id \in DOMAIN users :
            users'[id] # users[id] =>
              /\ Rank(users[id].role) < actorRank
              /\ Rank(users'[id].role) < actorRank
       /\ \A id \in DOMAIN users' \ DOMAIN users :
            Rank(users'[id].role) < actorRank
  ]_vars

(* An admin (promoted from staff) is refused when it asks for a role of    *)
(* its own rank or above.                                                  *)
C22_Witness ==
  /\ last.op = "createUser"
  /\ last.status = 403
  /\ last.code = "INSUFFICIENT_ROLE_LEVEL"
  /\ users[last.actor].role = "admin"

(***************************************************************************)
(* Claims about gated routes (specification SpecGate).                     *)
(***************************************************************************)
PrincipalActiveNow(tok) ==
  LET table == IF tok.payload.type = "user" THEN users ELSE clients IN
  \E i \in findByPk(table, tok.payload.id) : table[i].isActive

(* The row a credential names, as the store holds it now.                  *)
StoredPrincipal(tok) ==
  IF tok.payload.type = "user"
  THEN [role |-> {users[tok.payload.id].role},
        permissions |-> users[tok.payload.id].permissions]
  ELSE [role |-> {}, permissions |-> NoPermissions]

(* C27: a gated request decides from the principal's stored state, not     *)
(* from the credential's snapshot: with an issued access credential of a   *)
(* deactivated principal it is rejected with 401, and with an unexpired    *)
(* one of an active principal requireRole passes iff the stored role's     *)
(* rank reaches the minimum and requirePermission passes iff the name is   *)
(* in the effective set of the stored role and overrides.                  *)
C27_StoredStateDecides ==
  [][last'.op = "gated" =>
       \A tok \in last'.header :
         IsAccessCredential(tok) =>
           IF ~PrincipalActiveNow(tok) THEN last'.status = 401
           ELSE seconds(now) < tok.payload.exp =>
                  LET u == StoredPrincipal(tok) IN
                  IF last'.gate = "requireRole"
                  THEN (last'.status = 200)
                         <=> Rank(roleOrClient(u)) >= Rank(last'.arg)
                  ELSE (last'.status = 200) <=> last'.arg \in EffectiveSet(u)
    ]_vars

(* A credential issued to the staff user passes requireRole('admin') after *)
(* the store made that user an admin.                                      *)
C27_Witness ==
  /\ last.op = "gated" /\ last.gate = "requireRole" /\ last.arg = "admin"
  /\ last.status = 200
  /\ \E tok \in last.header : IsAccessCredential(tok) /\ tok.payload.role = {"staff"}

====
